---- MODULE Spec2Model ----
(***************************************************************************)
(* Model of LineageTracker/EstimateTime.py: EstimateTime.run_mcmc and the  *)
(* methods it calls.  Text is a sequence of one-character strings, so that *)
(* the regular expressions, split(), '%' formatting, the newick writer and *)
(* str.replace() are computed character by character.  A tree is a         *)
(* function from node ids to [name, children, up] records, the fields of   *)
(* an ete3 TreeNode that the program reads and writes.                     *)
(***************************************************************************)
EXTENDS Integers, Sequences, FiniteSets, TLC

(***************************************************************************)
(* Bounds of the model.                                                    *)
(***************************************************************************)
MaxNodes == 4
MaxNormNodes == 8
MaxLines == 2
MaxRunNodes == 3
MaxSumNodes == 6
MaxBelow == 2
MaxAbove == 2
MaxRecords == 3

(***************************************************************************)
(* Text.                                                                   *)
(***************************************************************************)
Letters == {"A", "B", "R", "X", "Z", "N", "o", "a", "m", "e", "U", "L"}
Digits == {"5", "7"}
WordChars == Letters \cup Digits \cup {"_"}
NL == "\n"
NoText == << >>

AllIn(s, S) == \A k \in 1..Len(s) : s[k] \in S

StartsWith(s, p) == Len(s) >= Len(p) /\ SubSeq(s, 1, Len(p)) = p

Drop(s, k) == SubSeq(s, k + 1, Len(s))

\* str.split(sep): the pieces between the non-overlapping occurrences of sep,
\* scanned from the left.
RECURSIVE SplitFrom(_, _, _)
SplitFrom(s, sep, acc) ==
    IF s = << >> THEN << acc >>
    ELSE IF StartsWith(s, sep) THEN << acc >> \o SplitFrom(Drop(s, Len(sep)), sep, << >>)
    ELSE SplitFrom(Tail(s), sep, Append(acc, Head(s)))

Split(s, sep) == SplitFrom(s, sep, << >>)

\* i.split(':')[0], the node name a constraint line gives (line 236)
NameOf(i) == Split(i, << ":" >>)[1]

\* str.replace(old, new): every non-overlapping occurrence, from the left.
RECURSIVE Replace(_, _, _)
Replace(s, old, new) ==
    IF s = << >> THEN << >>
    ELSE IF StartsWith(s, old) THEN new \o Replace(Drop(s, Len(old)), old, new)
    ELSE << Head(s) >> \o Replace(Tail(s), old, new)

Contains(s, p) == \E k \in 0..(Len(s) - Len(p)) : SubSeq(s, k + 1, k + Len(p)) = p

\* file.readlines(): the lines of the content, each keeping its line end.
RECURSIVE ReadLinesFrom(_, _)
ReadLinesFrom(s, acc) ==
    IF s = << >> THEN (IF acc = << >> THEN << >> ELSE << acc >>)
    ELSE IF Head(s) = NL THEN << Append(acc, NL) >> \o ReadLinesFrom(Tail(s), << >>)
    ELSE ReadLinesFrom(Tail(s), Append(acc, Head(s)))

ReadLines(content) == ReadLinesFrom(content, << >>)

\* In a Python regular expression '$' matches at the end of the string and
\* also just before a newline that ends the string.
BeforeDollar(s) ==
    IF Len(s) > 0 /\ s[Len(s)] = NL THEN SubSeq(s, 1, Len(s) - 1) ELSE s

Word(s) == Len(s) >= 1 /\ AllIn(s, WordChars)
Number(s) == Len(s) >= 1 /\ AllIn(s, Digits)

\* re.match(r'^\w+:\d+$', i)
MatchExact(i) ==
    \E k \in 1..Len(BeforeDollar(i)) :
        LET t == BeforeDollar(i) IN
        /\ t[k] = ":"
        /\ Word(SubSeq(t, 1, k - 1))
        /\ Number(Drop(t, k))

\* re.match(r'^\w+:<\d+$', i)
MatchUpper(i) ==
    \E k \in 1..(Len(BeforeDollar(i)) - 1) :
        LET t == BeforeDollar(i) IN
        /\ t[k] = ":" /\ t[k + 1] = "<"
        /\ Word(SubSeq(t, 1, k - 1))
        /\ Number(Drop(t, k + 1))

\* re.match(r'^\w+:>\d+$', i)
MatchLower(i) ==
    \E k \in 1..(Len(BeforeDollar(i)) - 1) :
        LET t == BeforeDollar(i) IN
        /\ t[k] = ":" /\ t[k + 1] = ">"
        /\ Word(SubSeq(t, 1, k - 1))
        /\ Number(Drop(t, k + 1))

\* re.match(r'^\w+:\d+-\d+$', i)
MatchBounded(i) ==
    \E k \in 1..Len(BeforeDollar(i)) : \E d \in (k + 1)..Len(BeforeDollar(i)) :
        LET t == BeforeDollar(i) IN
        /\ t[k] = ":" /\ t[d] = "-"
        /\ Word(SubSeq(t, 1, k - 1))
        /\ Number(SubSeq(t, k + 1, d - 1))
        /\ Number(Drop(t, d))

\* The if/elif chain of the loop body: cal_node and cal_time of a line, or
\* ok = FALSE where the code raises TypeError('format of calibration is
\* incorrect').
ParseLine(i) ==
    IF MatchExact(i) THEN
        [ok |-> TRUE, cal_node |-> Split(i, << ":" >>)[1],
         cal_time |-> << "U", "(" >> \o Split(i, << ":" >>)[2] \o << ")" >>]
    ELSE IF MatchUpper(i) THEN
        [ok |-> TRUE, cal_node |-> Split(i, << ":", "<" >>)[1],
         cal_time |-> << "U", "(" >> \o Split(i, << ":", "<" >>)[2] \o << ")" >>]
    ELSE IF MatchLower(i) THEN
        [ok |-> TRUE, cal_node |-> Split(i, << ":", ">" >>)[1],
         cal_time |-> << "L", "(" >> \o Split(i, << ":", ">" >>)[2] \o << ")" >>]
    ELSE IF MatchBounded(i) THEN
        LET ct == Split(i, << ":" >>)[2] IN
        [ok |-> TRUE, cal_node |-> Split(i, << ":" >>)[1],
         cal_time |-> << "B", "(" >> \o Split(ct, << "-" >>)[1] \o << ",", " " >>
                          \o Split(ct, << "-" >>)[2] \o << ")" >>]
    ELSE [ok |-> FALSE, cal_node |-> NoText, cal_time |-> NoText]

(***************************************************************************)
(* Trees (ete3 TreeNode).  Node 1 is the root; up = 0 stands for None.     *)
(***************************************************************************)
Root == 1
NoNameText == << "N", "o", "N", "a", "m", "e" >>

is_leaf(t, n) == Len(t[n].children) = 0

\* TreeNode._iter_descendants_preorder: a deque whose front is the next node.
RECURSIVE PreorderFrom(_, _)
PreorderFrom(t, todo) ==
    IF todo = << >> THEN << >>
    ELSE << Head(todo) >> \o PreorderFrom(t, t[Head(todo)].children \o Tail(todo))

Preorder(t) == PreorderFrom(t, << Root >>)

\* TreeNode._iter_descendants_levelorder, the default strategy of traverse().
RECURSIVE LevelorderFrom(_, _)
LevelorderFrom(t, todo) ==
    IF todo = << >> THEN << >>
    ELSE << Head(todo) >> \o LevelorderFrom(t, Tail(todo) \o t[Head(todo)].children)

Levelorder(t) == LevelorderFrom(t, << Root >>)

\* [leaf for leaf in tree]: TreeNode.__iter__ is iter_leaves().
Leaves(t) == LET leaf(n) == is_leaf(t, n) IN SelectSeq(Preorder(t), leaf)

LeafNames(t) == [k \in 1..Len(Leaves(t)) |-> t[Leaves(t)[k]].name]

\* tree.search_nodes(name=x): the nodes of traverse() whose name is x.
search_nodes(t, x) ==
    LET HasName(n) == t[n].name = x IN SelectSeq(Levelorder(t), HasName)

RECURSIVE RemoveFirst(_, _)
RemoveFirst(s, x) ==
    IF s = << >> THEN << >>
    ELSE IF Head(s) = x THEN Tail(s) ELSE << Head(s) >> \o RemoveFirst(Tail(s), x)

\* parent.add_child(ch): appended at the end of parent.children; ch.up = parent.
RECURSIVE add_children(_, _, _)
add_children(t, parent, chs) ==
    IF chs = << >> THEN t
    ELSE add_children([t EXCEPT ![parent].children = Append(@, Head(chs)),
                                ![Head(chs)].up = parent],
                      parent, Tail(chs))

\* parent.remove_child(child): list.remove; child.up = None.
remove_child(t, parent, child) ==
    [t EXCEPT ![parent].children = RemoveFirst(@, child), ![child].up = 0]

\* TreeNode.delete(prevent_nondicotomic=True): the children of the node are
\* appended to its parent, the node is removed from the parent; a parent left
\* with fewer than two children is deleted in turn (once).  The node keeps
\* its own children list.  A node without parent (the root) is left alone.
RECURSIVE delete(_, _, _)
delete(t, n, prevent_nondicotomic) ==
    LET parent == t[n].up IN
    IF parent = 0 THEN t
    ELSE LET t2 == remove_child(add_children(t, parent, t[n].children), parent, n) IN
         IF prevent_nondicotomic /\ Len(t2[parent].children) < 2
         THEN delete(t2, parent, FALSE)
         ELSE t2

\* The newick writer of ete3 (parser/newick.py, format_node): the characters
\* of _ILEGAL_NEWICK_CHARS in a name are written as '_', and an empty name in
\* a format whose name field is not flexible (8 and 9) is written 'NoName'.
IllegalNewickChars == {":", ";", "(", ")", ",", "[", "]", "\t", "\n", "\r", "="}

Sanitize(s) == [k \in 1..Len(s) |-> IF s[k] \in IllegalNewickChars THEN "_" ELSE s[k]]

format_node(name) == IF Sanitize(name) = << >> THEN NoNameText ELSE Sanitize(name)

\* tree.write(format=fmt) for fmt 8 (all names) and 9 (leaf names): the root's
\* own label is not written (format_root_node=False).
RECURSIVE write_node(_, _, _)
write_node(t, n, fmt) ==
    IF is_leaf(t, n) THEN format_node(t[n].name)
    ELSE LET RECURSIVE Kids(_)
             Kids(chs) == IF chs = << >> THEN << >>
                          ELSE (IF Len(chs) = Len(t[n].children) THEN << >> ELSE << "," >>)
                               \o write_node(t, Head(chs), fmt) \o Kids(Tail(chs))
         IN << "(" >> \o Kids(t[n].children) \o << ")" >>
            \o (IF t[n].up # 0 /\ fmt = 8 THEN format_node(t[n].name) ELSE << >>)

write(t, fmt) == write_node(t, Root, fmt) \o << ";" >>

\* Tree(tree.write(format=9), format=9): the same shape, leaf names as written,
\* internal names left at the default ''.
reread9(t) ==
    [n \in DOMAIN t |->
        [t[n] EXCEPT !.name = IF is_leaf(t, n) THEN format_node(t[n].name) ELSE << >>]]

(***************************************************************************)
(* Inputs: the tree of arguments.tree as Tree(..., format=8) reads it, and *)
(* the --cal argument.                                                     *)
(***************************************************************************)
RootNames == {<< >>, << "R" >>}
InnerNames == {<< >>, << "X" >>, << "R" >>}
TipNames == {<< "A" >>, << "B" >>}

\* A leaf name of its own for each node id.
TipOf(k) == << << "A" >>, << "B" >>, << "C" >>, << "D" >>, << "E" >>, << "F" >>,
               << "G" >>, << "H" >>, << "I" >>, << "J" >> >>[k]


RECURSIVE IsAncestorOrSelf(_, _, _)
IsAncestorOrSelf(p, a, x) == x = a \/ (x > 1 /\ IsAncestorOrSelf(p, a, p[x]))

\* Parent vectors (p[1] = 0) of the ordered rooted trees of n nodes numbered
\* in preorder: node n hangs from a node of the path from node n - 1 to the root.
RECURSIVE Shapes(_)
Shapes(n) ==
    IF n = 1 THEN {<< 0 >>}
    ELSE UNION {{Append(p, a) : a \in {x \in 1..(n - 1) : IsAncestorOrSelf(p, x, n - 1)}}
                : p \in Shapes(n - 1)}

RECURSIVE KidsFrom(_, _, _, _)
KidsFrom(p, k, j, n) ==
    IF j > n THEN << >>
    ELSE (IF p[j] = k THEN << j >> ELSE << >>) \o KidsFrom(p, k, j + 1, n)

MkTree(p, names, n) ==
    [k \in 1..n |-> [name |-> names[k],
                     children |-> KidsFrom(p, k, 2, n),
                     up |-> IF k = 1 THEN 0 ELSE p[k]]]

\* The trees of shape p whose root, inner nodes and leaves are named from the
\* three given sets.
NamedTrees(p, n, roots, inners, tips) ==
    LET tipNodes == {k \in 2..n : KidsFrom(p, k, 2, n) = << >>}
        innerNodes == (2..n) \ tipNodes
    IN {MkTree(p, [k \in 1..n |-> IF k = Root THEN r
                                  ELSE IF k \in tipNodes THEN tn[k] ELSE inn[k]], n)
           : r \in roots, inn \in [innerNodes -> inners], tn \in [tipNodes -> tips]}

TreesOf(n, roots, inners, tips) ==
    UNION {NamedTrees(p, n, roots, inners, tips) : p \in Shapes(n)}

\* Trees whose leaves are named (the taxa of the alignment); the root and the
\* inner nodes may be unnamed, and names may repeat.  A tree of fewer than 2
\* leaves is no input of the program.
CalTrees ==
    {t \in UNION {TreesOf(n, RootNames, InnerNames, TipNames) : n \in 3..MaxNodes}
        : Len(Leaves(t)) >= 2}

LineBodies ==
    { << "B", ":", "5", "-", "7" >>,
      << "X", ":", "5" >>,
      << "X", ":", "<", "7" >>,
      << "R", ":", ">", "5" >>,
      << "Z", ":", "5" >>,
      << "X", "=", "5" >> }

RECURSIVE JoinLines(_)
JoinLines(ls) ==
    IF ls = << >> THEN << >>
    ELSE IF Len(ls) = 1 THEN Head(ls)
    ELSE Head(ls) \o << NL >> \o JoinLines(Tail(ls))

\* Contents of a constraint file: up to MaxLines lines of the given bodies,
\* the last one with or without its line end.
FileContents(bodies) ==
    UNION {{JoinLines(ls) \o e : ls \in [1..n -> bodies], e \in {<< >>, << NL >>}}
           : n \in 1..MaxLines}

\* --cal: a literal constraint, or the path of an existing file (text is then
\* the content of the file).
CalArgsOf(bodies) ==
    {[kind |-> "file", text |-> c] : c \in FileContents(bodies)}
    \cup {[kind |-> "literal", text |-> b] : b \in bodies}

CalArgs == CalArgsOf(LineBodies)

NoCal == [kind |-> "none", text |-> << >>]

None == [set |-> FALSE, text |-> << >>]
Some(txt) == [set |-> TRUE, text |-> txt]

NoFile == [written |-> FALSE, taxa_num |-> 0, tree |-> << >>]
NoCtl == [written |-> FALSE, nsample |-> 0, RootAge |-> None]
NoTable == [written |-> FALSE, rows |-> << >>]

(***************************************************************************)
(* State.                                                                  *)
(***************************************************************************)
VARIABLES
    pc,               \* position in run_mcmc and in the method it has called
    tree,             \* the tree of arguments.tree
    calibration,      \* arguments.calibration
    auto,             \* arguments.auto
    mcmc,             \* arguments.mcmc
    calibration_info,
    line_no,          \* the line of calibration_info the parser loop is at
    used_nodes,
    root_age,
    cal_tree,         \* cal_tree of _haplogroup_calibration
    pruned_tree,      \* pruned_tree of _read_tree_file
    node,             \* the node the traversal generator has yielded (0: exhausted)
    to_visit,         \* the deque of the traversal generator
    tree_file,        \* what was written to tree_tmp_file
    auto_calibration,
    ctl,              \* the control file
    warnings,         \* number of logger.warning calls of _generate_mcmc_ctl
    estimator_runs,   \* number of times the mcmctree process was started
    out_info,         \* the lines of the .out.txt file
    time_info,
    num,
    no_name_num,
    haptime,          \* the .haptime.txt file
    error             \* the exception or exit that ended the run ("" while none)

vars == << pc, tree, calibration, auto, mcmc, calibration_info, line_no, used_nodes,
           root_age, cal_tree, pruned_tree, node, to_visit, tree_file,
           auto_calibration, ctl, warnings, estimator_runs, out_info, time_info,
           num, no_name_num, haptime, error >>

argVars == << tree, calibration, auto, mcmc >>
calVars == << calibration_info, line_no, used_nodes, root_age, cal_tree >>
sumVars == << out_info, time_info, num, no_name_num, haptime >>

\* The next node of the generator, resumed after the loop body has left tree t.
Advance(t) ==
    LET q == t[node].children \o to_visit IN
    /\ node' = IF q = << >> THEN 0 ELSE Head(q)
    /\ to_visit' = IF q = << >> THEN << >> ELSE Tail(q)

(***************************************************************************)
(* _haplogroup_calibration                                                 *)
(***************************************************************************)
\* _get_calibration
get_calibration(cal) ==
    IF cal.kind = "file" THEN ReadLines(cal.text) ELSE << cal.text >>

root_name == tree[Root].name

\* lines 228-234
HapCalInit ==
    /\ pc = "hap_cal"
    /\ calibration_info' = get_calibration(calibration)
    /\ line_no' = 1
    /\ cal_tree' = tree
    /\ root_age' = None
    /\ used_nodes' = << >>
    /\ node' = Root
    /\ to_visit' = << >>
    /\ pc' = IF get_calibration(calibration) = << >> THEN "cal_prune" ELSE "cal_loop"
    /\ UNCHANGED << argVars, sumVars, pruned_tree, tree_file, auto_calibration, ctl,
                    warnings, estimator_runs, error >>

InSeq(x, s) == \E k \in 1..Len(s) : s[k] = x

\* A plausible slip of lines 250-251 and 257-258: a line of no form, or one
\* whose node is not found, is skipped instead of raising.
CalLine_skips_bad_line ==
    /\ pc = "cal_loop"
    /\ LET i == calibration_info[line_no]
           used_node == NameOf(i)
           r == ParseLine(i)
           found == search_nodes(cal_tree, r.cal_node)
       IN
       /\ IF r.ok /\ used_node = root_name THEN
               /\ root_age' = Some(r.cal_time)
               /\ UNCHANGED cal_tree
          ELSE IF r.ok /\ found # << >> THEN
               /\ cal_tree' = [cal_tree EXCEPT ![found[1]].name = r.cal_time]
               /\ UNCHANGED root_age
          ELSE UNCHANGED << cal_tree, root_age >>
       /\ used_nodes' = Append(used_nodes, used_node)
       /\ line_no' = line_no + 1
       /\ pc' = IF line_no = Len(calibration_info) THEN "cal_prune" ELSE "cal_loop"
    /\ UNCHANGED << argVars, sumVars, calibration_info, pruned_tree, node, to_visit,
                    tree_file, auto_calibration, ctl, warnings, estimator_runs, error >>

\* lines 235-259: one iteration of the parser loop
CalLine ==
    /\ pc = "cal_loop"
    /\ LET i == calibration_info[line_no]
           used_node == NameOf(i)
           r == ParseLine(i)
           found == search_nodes(cal_tree, r.cal_node)
       IN
       IF ~r.ok THEN
            /\ error' = "TypeError: format of calibration is incorrect"
            /\ pc' = "raised"
            /\ UNCHANGED << cal_tree, root_age, used_nodes, line_no >>
       ELSE IF used_node = root_name THEN
            /\ root_age' = Some(r.cal_time)
            /\ used_nodes' = Append(used_nodes, used_node)
            /\ line_no' = line_no + 1
            /\ pc' = IF line_no = Len(calibration_info) THEN "cal_prune" ELSE "cal_loop"
            /\ UNCHANGED << cal_tree, error >>
       ELSE IF found = << >> THEN
            /\ error' = "TypeError: cannot find the haplogroup node in tree"
            /\ pc' = "raised"
            /\ UNCHANGED << cal_tree, root_age, used_nodes, line_no >>
       ELSE
            /\ cal_tree' = [cal_tree EXCEPT ![found[1]].name = r.cal_time]
            /\ used_nodes' = Append(used_nodes, used_node)
            /\ line_no' = line_no + 1
            /\ pc' = IF line_no = Len(calibration_info) THEN "cal_prune" ELSE "cal_loop"
            /\ UNCHANGED << root_age, error >>
    /\ UNCHANGED << argVars, sumVars, calibration_info, pruned_tree, node, to_visit,
                    tree_file, auto_calibration, ctl, warnings, estimator_runs >>

\* lines 262-267: the loop body on one node
CalPruneBody(t, n) ==
    IF is_leaf(t, n) THEN t
    ELSE IF Len(t[n].children) = 1 /\ t[n].name = << >> THEN delete(t, n, TRUE)
    ELSE IF ~InSeq(t[n].name, used_nodes) THEN [t EXCEPT ![n].name = NoNameText]
    ELSE t

\* line 261: iter_descendants('preorder') yields every node of the traversal
\* but the root itself.
CalPruneStep ==
    /\ pc = "cal_prune"
    /\ node # 0
    /\ LET t == IF node = Root THEN cal_tree ELSE CalPruneBody(cal_tree, node) IN
       /\ cal_tree' = t
       /\ Advance(t)
    /\ UNCHANGED << pc, argVars, sumVars, calibration_info, line_no, used_nodes,
                    root_age, pruned_tree, tree_file, auto_calibration, ctl, warnings,
                    estimator_runs, error >>

\* lines 268-275
WriteCalTree ==
    /\ pc = "cal_prune"
    /\ node = 0
    /\ tree_file' = [written |-> TRUE,
                     taxa_num |-> Len(Leaves(cal_tree)),
                     tree |-> Replace(write(cal_tree, 8), NoNameText, << >>)]
    /\ auto_calibration' = root_age
    /\ pc' = "clean_alignment"
    /\ UNCHANGED << argVars, calVars, sumVars, pruned_tree, node, to_visit, ctl,
                    warnings, estimator_runs, error >>

(***************************************************************************)
(* _read_tree_file                                                         *)
(***************************************************************************)
\* lines 202-204
ReadTreeInit ==
    /\ pc = "read_tree"
    /\ pruned_tree' = reread9(tree)
    /\ node' = Root
    /\ to_visit' = << >>
    /\ pc' = "norm_prune"
    /\ UNCHANGED << argVars, calVars, sumVars, tree_file, auto_calibration, ctl,
                    warnings, estimator_runs, error >>

\* lines 207-208: the loop body on one node
NormPruneBody(t, n) ==
    IF ~is_leaf(t, n) /\ Len(t[n].children) = 1 /\ t[n].name = << >>
    THEN delete(t, n, TRUE)
    ELSE t

\* line 206: iter_descendants('preorder') yields every node of the traversal
\* but the root itself.
NormPruneStep ==
    /\ pc = "norm_prune"
    /\ node # 0
    /\ LET t == IF node = Root THEN pruned_tree ELSE NormPruneBody(pruned_tree, node) IN
       /\ pruned_tree' = t
       /\ Advance(t)
    /\ UNCHANGED << pc, argVars, calVars, sumVars, tree_file, auto_calibration, ctl,
                    warnings, estimator_runs, error >>

\* lines 209-215
WriteTree ==
    /\ pc = "norm_prune"
    /\ node = 0
    /\ tree_file' = [written |-> TRUE,
                     taxa_num |-> Len(Leaves(pruned_tree)),
                     tree |-> write(pruned_tree, 9)]
    /\ pc' = "clean_alignment"
    /\ UNCHANGED << argVars, calVars, sumVars, pruned_tree, node, to_visit,
                    auto_calibration, ctl, warnings, estimator_runs, error >>

(***************************************************************************)
(* run_mcmc                                                                *)
(***************************************************************************)
\* The table of CommonData.read_prior_calibration(): haplogroup names with
\* their Lower1 and Upper1 columns.
PriorCalibrationIndex == {<< "R" >>}
Lower1(name) == << "5" >>
Upper1(name) == << "7" >>

\* _get_root_age
get_root_age(t) ==
    IF t[Root].name \in PriorCalibrationIndex
    THEN Some(<< "B", "(" >> \o Lower1(t[Root].name) \o << ",", " " >>
                  \o Upper1(t[Root].name) \o << ")" >>)
    ELSE None

\* lines 403-416, up to the call of _haplogroup_calibration or _read_tree_file
Start ==
    /\ pc = "run_mcmc"
    /\ IF ~(auto \/ calibration.kind # "none") THEN
            /\ error' = "sys.exit: no calibration information"
            /\ pc' = "stopped"
            /\ UNCHANGED auto_calibration
       ELSE /\ auto_calibration' = IF auto THEN get_root_age(tree) ELSE None
            /\ pc' = IF calibration.kind # "none" THEN "hap_cal" ELSE "read_tree"
            /\ UNCHANGED error
    /\ UNCHANGED << argVars, calVars, sumVars, pruned_tree, node, to_visit, tree_file,
                    ctl, warnings, estimator_runs >>

\* line 420: _clean_alignment writes the sequence file only
CleanAlignment ==
    /\ pc = "clean_alignment"
    /\ pc' = "generate_ctl"
    /\ UNCHANGED << argVars, calVars, sumVars, pruned_tree, node, to_visit, tree_file,
                    auto_calibration, ctl, warnings, estimator_runs, error >>

MinStep == 1000
DefaultStep == 10000

\* _generate_mcmc_ctl: the nsample and RootAge parameters
GenerateMcmcCtl ==
    /\ pc = "generate_ctl"
    /\ IF mcmc.given /\ mcmc.value # 0 THEN
            IF mcmc.value > MinStep
            THEN /\ ctl' = [written |-> TRUE, nsample |-> mcmc.value,
                            RootAge |-> auto_calibration]
                 /\ UNCHANGED warnings
            ELSE /\ warnings' = warnings + 1
                 /\ ctl' = [written |-> TRUE, nsample |-> DefaultStep,
                            RootAge |-> auto_calibration]
       ELSE /\ ctl' = [written |-> TRUE, nsample |-> DefaultStep,
                       RootAge |-> auto_calibration]
            /\ UNCHANGED warnings
    /\ pc' = "estimator"
    /\ UNCHANGED << argVars, calVars, sumVars, pruned_tree, node, to_visit, tree_file,
                    auto_calibration, estimator_runs, error >>

\* The report of mcmctree: lines are sequences of blank-separated tokens,
\* tokens are text.  A record line is
\*   t_n<k> <mean> (<lo>, <hi>) (<lower>, <upper>) ...
NumText(k) == << << "0" >>, << "1" >>, << "2" >>, << "3" >>, << "4" >>, << "5" >>,
                 << "6" >>, << "7" >>, << "8" >>, << "9" >> >>[k + 1]
MarkerLine == << << "Posterior" >>, << "mean" >> >>
RecordLine(k) ==
    << << "t" >> \o NumText(k),
       << "m" >> \o NumText(k),
       << "(", "a" >> \o NumText(k) \o << "," >>,
       << "b" >> \o NumText(k) \o << ")" >>,
       << "(", "l" >> \o NumText(k) \o << "," >>,
       << "u" >> \o NumText(k) \o << ")" >> >>
TrailerLines == << << >>, << << "t" >> >>, << >> >>
Report(r, marker) ==
    << << << "M" >> >> >> \o (IF marker THEN << MarkerLine >> ELSE << >>) \o << << >> >>
        \o [k \in 1..r |-> RecordLine(k)] \o TrailerLines

\* lines 427-433: the estimator is run once and leaves its report, of any
\* number of record lines, or one without the summary when it failed
RunEstimator ==
    /\ pc = "estimator"
    /\ estimator_runs' = estimator_runs + 1
    /\ \E r \in 0..MaxRecords, marker \in BOOLEAN : out_info' = Report(r, marker)
    /\ pc' = "summarize"
    /\ UNCHANGED << argVars, calVars, pruned_tree, node, to_visit, tree_file,
                    auto_calibration, ctl, warnings, time_info, num, no_name_num,
                    haptime, error >>

\* str.strip(c) for a one-character c
RECURSIVE LStrip(_, _)
LStrip(s, c) == IF s # << >> /\ Head(s) = c THEN LStrip(Tail(s), c) ELSE s
RECURSIVE RStrip(_, _)
RStrip(s, c) ==
    IF s # << >> /\ s[Len(s)] = c THEN RStrip(SubSeq(s, 1, Len(s) - 1), c) ELSE s
Strip(s, c) == RStrip(LStrip(s, c), c)

\* lines 376-378: the index (from 0) of the first line equal to the last line
\* that starts with 'Posterior mean'; -1 where head_num stays unbound
HeadNum(lines) ==
    LET marks == {k \in 1..Len(lines) : StartsWith(lines[k], MarkerLine)} IN
    IF marks = {} THEN 0 - 1
    ELSE LET last == CHOOSE k \in marks : \A j \in marks : j <= k
         IN (CHOOSE k \in 1..Len(lines) :
                lines[k] = lines[last] /\ \A j \in 1..(k - 1) : lines[j] # lines[last]) - 1

\* lines 373-384
SummarizeInit ==
    /\ pc = "summarize"
    /\ IF HeadNum(out_info) < 0 THEN
            /\ error' = "UnboundLocalError: head_num"
            /\ pc' = "raised"
            /\ UNCHANGED << time_info, haptime, num, no_name_num, node, to_visit >>
       ELSE /\ time_info' = SubSeq(out_info, HeadNum(out_info) + 3, Len(out_info) - 3)
            /\ haptime' = [written |-> TRUE,
                           rows |-> << << "NodeName", "NodeTime", "Lower", "Upper" >> >>]
            /\ num' = 0
            /\ no_name_num' = 0
            /\ node' = Root
            /\ to_visit' = << >>
            /\ pc' = "sum_loop"
            /\ UNCHANGED error
    /\ UNCHANGED << argVars, calVars, pruned_tree, tree_file, auto_calibration, ctl,
                    warnings, estimator_runs, out_info >>

\* A plausible slip of line 387: every non-leaf node takes a record.
qualifies_any_internal(t, n) == ~is_leaf(t, n)

\* line 387: the nodes that take a record
qualifies(t, n) == ~is_leaf(t, n) /\ Len(t[n].children) > 1

\* lines 385-398: the loop body on one node of traverse('preorder') of the
\* original tree; the loop ends when the generator is exhausted
SummarizeStep ==
    /\ pc = "sum_loop"
    /\ node # 0
    /\ IF qualifies(tree, node) THEN
            IF num >= Len(time_info) THEN
                /\ error' = "IndexError: list index out of range"
                /\ pc' = "raised"
                /\ UNCHANGED << haptime, num, no_name_num, node, to_visit >>
            ELSE
                LET node_name == IF tree[node].name = << >>
                                 THEN NoNameText \o NumText(no_name_num)
                                 ELSE tree[node].name
                    node_time_info == time_info[num + 1]
                    node_time == node_time_info[2]
                    lower == Strip(Strip(node_time_info[5], "("), ",")
                    upper == Strip(node_time_info[6], ")")
                IN
                /\ no_name_num' = IF tree[node].name = << >> THEN no_name_num + 1
                                  ELSE no_name_num
                /\ num' = num + 1
                /\ haptime' = [haptime EXCEPT
                                 !.rows = Append(@, << node_name, node_time, lower, upper >>)]
                /\ Advance(tree)
                /\ pc' = IF tree[node].children \o to_visit = << >> THEN "done" ELSE "sum_loop"
                /\ UNCHANGED error
       ELSE /\ Advance(tree)
            /\ pc' = IF tree[node].children \o to_visit = << >> THEN "done" ELSE "sum_loop"
            /\ UNCHANGED << haptime, num, no_name_num, error >>
    /\ UNCHANGED << argVars, calVars, pruned_tree, tree_file, auto_calibration, ctl,
                    warnings, estimator_runs, out_info, time_info >>

Blank ==
    /\ calibration_info = << >>
    /\ line_no = 0
    /\ used_nodes = << >>
    /\ root_age = None
    /\ cal_tree = << >>
    /\ pruned_tree = << >>
    /\ node = 0
    /\ to_visit = << >>
    /\ tree_file = NoFile
    /\ auto_calibration = None
    /\ ctl = NoCtl
    /\ warnings = 0
    /\ estimator_runs = 0
    /\ out_info = << >>
    /\ time_info = << >>
    /\ num = 0
    /\ no_name_num = 0
    /\ haptime = NoTable
    /\ error = ""

NoMcmc == [given |-> FALSE, value |-> 0]

\* --mcmc help: 'The default is 5000.'
DocumentedDefault == 5000

\* _haplogroup_calibration on every tree of up to MaxNodes nodes and every
\* --cal argument of up to MaxLines lines.
InitCal ==
    /\ pc = "hap_cal"
    /\ tree \in CalTrees
    /\ calibration \in CalArgs
    /\ auto = FALSE
    /\ mcmc = NoMcmc
    /\ Blank

NextCal == HapCalInit \/ CalLine \/ CalPruneStep \/ WriteCalTree

SpecCal == InitCal /\ [][NextCal]_vars

\* Trees of distinct leaf names; the inner nodes are all unnamed or all named.
NormTree(p, n, inner) ==
    LET t == MkTree(p, [k \in 1..n |-> inner], n)
    IN [k \in 1..n |-> [t[k] EXCEPT !.name = IF is_leaf(t, k) THEN TipOf(k) ELSE inner]]

NormTrees ==
    {t \in UNION {{NormTree(p, n, inner) : p \in Shapes(n), inner \in {<< >>, << "X" >>}}
                  : n \in 3..MaxNormNodes} : Len(Leaves(t)) >= 2}

\* _read_tree_file on every tree shape of up to MaxNormNodes nodes.
InitNorm ==
    /\ pc = "read_tree"
    /\ tree \in NormTrees
    /\ calibration = NoCal
    /\ auto = TRUE
    /\ mcmc = NoMcmc
    /\ Blank

NextNorm == ReadTreeInit \/ NormPruneStep \/ WriteTree

SpecNorm == InitNorm /\ [][NextNorm]_vars

\* Trees of up to MaxRunNodes nodes for whole runs.
RunTrees ==
    {t \in UNION {TreesOf(n, RootNames, InnerNames, TipNames) : n \in 3..MaxRunNodes}
        : Len(Leaves(t)) >= 2}

\* Whole runs take a constraint on a leaf, on the root and on a missing node,
\* and a line of no form.
RunCalArgs ==
    CalArgsOf({b \in LineBodies : NameOf(b) \in {<< "B" >>, << "R" >>, << "Z" >>, << "X", "=", "5" >>}})

RunMcmcArgs == {NoMcmc, [given |-> TRUE, value |-> MinStep + 1]}

Init ==
    /\ pc = "run_mcmc"
    /\ tree \in RunTrees
    /\ calibration \in RunCalArgs \cup {NoCal}
    /\ auto \in BOOLEAN
    /\ mcmc \in RunMcmcArgs
    /\ Blank

Next ==
    \/ Start
    \/ HapCalInit
    \/ CalLine
    \/ CalPruneStep
    \/ WriteCalTree
    \/ ReadTreeInit
    \/ NormPruneStep
    \/ WriteTree
    \/ CleanAlignment
    \/ GenerateMcmcCtl
    \/ RunEstimator
    \/ SummarizeInit
    \/ SummarizeStep

Spec == Init /\ [][Next]_vars

\* --mcmc: absent, or any integer from -MaxBelow to MaxAbove over the threshold.
McmcArgs ==
    {NoMcmc} \cup {[given |-> TRUE, value |-> v] : v \in (0 - MaxBelow)..(MinStep + MaxAbove)}

\* _generate_mcmc_ctl on every --mcmc argument, with and without a root age.
InitCtl ==
    /\ pc = "generate_ctl"
    /\ tree \in {t \in CalTrees : Len(t) = 3 /\ t[Root].name = << "R" >>}
    /\ calibration = NoCal
    /\ auto = TRUE
    /\ mcmc \in McmcArgs
    /\ calibration_info = << >>
    /\ line_no = 0
    /\ used_nodes = << >>
    /\ root_age = None
    /\ cal_tree = << >>
    /\ pruned_tree = reread9(tree)
    /\ node = 0
    /\ to_visit = << >>
    /\ tree_file = [written |-> TRUE, taxa_num |-> Len(Leaves(pruned_tree)),
                    tree |-> write(pruned_tree, 9)]
    /\ auto_calibration \in {None, get_root_age(tree)}
    /\ ctl = NoCtl
    /\ warnings = 0
    /\ estimator_runs = 0
    /\ out_info = << >>
    /\ time_info = << >>
    /\ num = 0
    /\ no_name_num = 0
    /\ haptime = NoTable
    /\ error = ""

NextCtl == GenerateMcmcCtl

SpecCtl == InitCtl /\ [][NextCtl]_vars

\* Trees of up to MaxSumNodes nodes, every inner node named or not.
SumTrees ==
    {t \in UNION {TreesOf(n, {<< >>, << "R" >>}, {<< >>, << "X" >>}, {<< "A" >>})
                  : n \in 3..MaxSumNodes} : Len(Leaves(t)) >= 2}

\* _summarize_result after the estimator has run, on every tree of SumTrees.
InitSum ==
    /\ pc = "estimator"
    /\ tree \in SumTrees
    /\ calibration = NoCal
    /\ auto = TRUE
    /\ mcmc = NoMcmc
    /\ calibration_info = << >>
    /\ line_no = 0
    /\ used_nodes = << >>
    /\ root_age = None
    /\ cal_tree = << >>
    /\ pruned_tree = << >>
    /\ node = 0
    /\ to_visit = << >>
    /\ tree_file = NoFile
    /\ auto_calibration = None
    /\ ctl = [written |-> TRUE, nsample |-> DefaultStep, RootAge |-> None]
    /\ warnings = 0
    /\ estimator_runs = 0
    /\ out_info = << >>
    /\ time_info = << >>
    /\ num = 0
    /\ no_name_num = 0
    /\ haptime = NoTable
    /\ error = ""

NextSum == RunEstimator \/ SummarizeInit \/ SummarizeStep

SpecSum == InitSum /\ [][NextSum]_vars

(***************************************************************************)
(* Claims about the tree written for the estimator.                        *)
(***************************************************************************)
InTree(t) == {Preorder(t)[k] : k \in 1..Len(Preorder(t))}

NormWritten == pc = "clean_alignment" /\ pruned_tree # << >>

\* C5: the tree written by normalization has no unary internal node: every
\* non-leaf node, the root included, has at least 2 children.
C5_NoUnaryNode ==
    NormWritten =>
        \A n \in InTree(pruned_tree) :
            ~is_leaf(pruned_tree, n) => Len(pruned_tree[n].children) >= 2

\* C6: normalization leaves the left-to-right sequence of leaf names
\* unchanged, and the tip count of the header line is the number of leaves of
\* the input tree.
C6_LeafOrderKept ==
    NormWritten =>
        /\ LeafNames(pruned_tree) = LeafNames(tree)
        /\ tree_file.taxa_num = Len(Leaves(tree))

LeafSet(t, n) ==
    LET sub == PreorderFrom(t, << n >>)
    IN {t[sub[k]].name : k \in {j \in 1..Len(sub) : is_leaf(t, sub[j])}}

\* The nodes _summarize_result pairs with records: line 387 on traverse('preorder').
Qualifying(t) ==
    LET has_children(n) == Len(t[n].children) > 1 IN SelectSeq(Preorder(t), has_children)

\* The non-leaf nodes of a written tree, in preorder.
Internal(t) == LET not_leaf(n) == ~is_leaf(t, n) IN SelectSeq(Preorder(t), not_leaf)

\* C7: the qualifying nodes of the original tree and the non-leaf nodes of the
\* tree written for the estimator correspond one-to-one in preorder: the same
\* number of nodes, the k-th spanning the same leaf set.
C7_SameNumbering ==
    NormWritten =>
        /\ Len(Qualifying(tree)) = Len(Internal(pruned_tree))
        /\ \A k \in 1..Len(Qualifying(tree)) :
              k <= Len(Internal(pruned_tree)) =>
                  LeafSet(tree, Qualifying(tree)[k])
                      = LeafSet(pruned_tree, Internal(pruned_tree)[k])

(***************************************************************************)
(* Claims about _haplogroup_calibration.                                   *)
(***************************************************************************)
CalWritten == pc = "clean_alignment" /\ cal_tree # << >>

\* The digit strings a constraint line gives after the node name.
TimesOf(i) ==
    LET after == SubSeq(i, Len(NameOf(i)) + 2, Len(i))
        keep(c) == c \in Digits \cup {"-"}
    IN Split(SelectSeq(after, keep), << "-" >>)

\* The prior text the four forms stand for: B(T1, T2), L(T) or U(T).
ExpectedPrior(i) ==
    IF Len(TimesOf(i)) = 2
    THEN << "B", "(" >> \o TimesOf(i)[1] \o << ",", " " >> \o TimesOf(i)[2] \o << ")" >>
    ELSE IF Contains(i, << ":", ">" >>)
    THEN << "L", "(" >> \o TimesOf(i)[1] \o << ")" >>
    ELSE << "U", "(" >> \o TimesOf(i)[1] \o << ")" >>

\* The label of a node other than the root in the serialized tree.
WrittenLabel(t, n) == Replace(format_node(t[n].name), NoNameText, << >>)

DistinctConstraints ==
    \A j, k \in 1..Len(calibration_info) :
        j # k => NameOf(calibration_info[j]) # NameOf(calibration_info[k])

\* C1: in the serialized tree every constrained node other than the root,
\* leaf or internal, carries its prior expression text as its label.
C1_ConstrainedNodeCarriesPrior ==
    (CalWritten /\ DistinctConstraints) =>
        \A k \in 1..Len(calibration_info) :
            LET i == calibration_info[k]
                hits == search_nodes(tree, NameOf(i))
            IN NameOf(i) # root_name =>
                  /\ hits # << >>
                  /\ hits[1] \in InTree(cal_tree)
                  /\ WrittenLabel(cal_tree, hits[1]) = ExpectedPrior(i)
                  /\ Contains(tree_file.tree, ExpectedPrior(i))

IsPriorText(x) ==
    Len(x) >= 3 /\ x[1] \in {"U", "L", "B"} /\ x[2] = "(" /\ x[Len(x)] = ")"

\* C2: in the serialized tree the label of every internal node other than the
\* root is a prior expression or empty.
C2_NoLeftoverLabel ==
    CalWritten =>
        \A n \in InTree(cal_tree) \ {Root} :
            ~is_leaf(cal_tree, n) =>
                \/ WrittenLabel(cal_tree, n) = << >>
                \/ IsPriorText(cal_tree[n].name)

\* C3: a constraint that names the root makes the returned root age exactly
\* its prior expression, and no node of the serialized tree gets that text.
C3_RootConstraintIsRootAge ==
    CalWritten =>
        \A k \in 1..Len(calibration_info) :
            LET i == calibration_info[k] IN
            (/\ NameOf(i) = root_name
             /\ \A j \in 1..Len(calibration_info) :
                    j # k => /\ NameOf(calibration_info[j]) # root_name
                             /\ ExpectedPrior(calibration_info[j]) # ExpectedPrior(i))
            => /\ auto_calibration = Some(ExpectedPrior(i))
               /\ \A n \in InTree(cal_tree) : cal_tree[n].name # ExpectedPrior(i)
               /\ ~Contains(tree_file.tree, ExpectedPrior(i))

\* The parser loop has just accepted line line_no - 1.
LineAccepted ==
    /\ line_no > 1
    /\ \/ pc \in {"cal_loop", "raised"}
       \/ pc = "cal_prune" /\ node = Root /\ to_visit = << >>

\* C4: the prior text produced for an accepted line is exactly B(T1, T2),
\* U(T) or L(T) with the digit strings of the line between the parentheses.
C4_PriorTextExact ==
    LineAccepted =>
        LET i == calibration_info[line_no - 1] IN
        IF NameOf(i) = root_name
        THEN root_age = Some(ExpectedPrior(i))
        ELSE \E n \in DOMAIN cal_tree : cal_tree[n].name = ExpectedPrior(i)

(***************************************************************************)
(* Claims about _summarize_result.                                         *)
(***************************************************************************)
\* The name in the table of the k-th node of the sequence q: its own, or
\* NoName<j> when it is the (j+1)-th unnamed one.
RowName(q, k) ==
    LET unnamed == Cardinality({j \in 1..(k - 1) : tree[q[j]].name = << >>})
    IN IF tree[q[k]].name = << >> THEN NoNameText \o NumText(unnamed) ELSE tree[q[k]].name

\* The row of the k-th node of q paired with the k-th record line.
ExpectedRow(q, k) ==
    << RowName(q, k), << "m" >> \o NumText(k), << "l" >> \o NumText(k),
       << "u" >> \o NumText(k) >>

\* C8: after the header row the table has one row per node of the original
\* tree with at least 2 children, in preorder, the k-th such node paired with
\* the k-th record line; on return as many record lines were consumed as
\* there are such nodes.
C8_RowsPairInOrder ==
    LET q == Qualifying(tree) IN
    /\ haptime.written =>
          /\ Len(haptime.rows) = num + 1
          /\ num <= Len(q)
          /\ num <= Len(time_info)
          /\ \A k \in 1..num : haptime.rows[k + 1] = ExpectedRow(q, k)
    /\ pc = "done" => num = Len(q)

\* A table of at least 2 rows was finished for a tree with a unary node and an
\* unnamed qualifying node.
C8_Witness ==
    /\ pc = "done"
    /\ num >= 2
    /\ \E n \in DOMAIN tree : Len(tree[n].children) = 1
    /\ \E k \in 1..num : tree[Qualifying(tree)[k]].name = << >>

(***************************************************************************)
(* Claims about run_mcmc.                                                  *)
(***************************************************************************)
FatalErrors ==
    { "sys.exit: no calibration information",
      "TypeError: format of calibration is incorrect",
      "TypeError: cannot find the haplogroup node in tree" }

MatchesAForm(i) == MatchExact(i) \/ MatchUpper(i) \/ MatchLower(i) \/ MatchBounded(i)

\* The run was given no calibration, a line of none of the four forms, or a
\* constraint on a name no node of the tree has.
FatalInput ==
    LET lines == get_calibration(calibration)
        names == {tree[n].name : n \in DOMAIN tree}
    IN \/ ~auto /\ calibration.kind = "none"
       \/ /\ calibration.kind # "none"
          /\ \E k \in 1..Len(lines) :
                ~MatchesAForm(lines[k]) \/ NameOf(lines[k]) \notin names

\* C9: a fatal error is never ignored: a run with a fatal input never starts
\* the estimator and writes neither the tree file nor the result table; it
\* ends with that error, and a run that has raised does nothing more.
C9_FatalErrorStopsRun ==
    /\ FatalInput =>
          /\ estimator_runs = 0
          /\ ~tree_file.written
          /\ ~haptime.written
          /\ ~ctl.written
          /\ pc \in {"raised", "stopped", "done"} => error \in FatalErrors
    /\ error # "" => pc \in {"raised", "stopped"}

\* A format error on the second line, after the first line had renamed a node.
C9_Witness ==
    /\ error = "TypeError: format of calibration is incorrect"
    /\ line_no = 2
    /\ cal_tree # tree
    /\ estimator_runs = 0

\* C10: nsample is the --mcmc value whenever that value is at least the
\* threshold; a value below the threshold is replaced by the default with a
\* warning; without --mcmc nsample is the documented default of 5000.
C10_SampleCount ==
    ctl.written =>
        /\ (mcmc.given /\ mcmc.value >= MinStep) => ctl.nsample = mcmc.value
        /\ (mcmc.given /\ mcmc.value < MinStep) =>
              /\ ctl.nsample \in {DefaultStep, DocumentedDefault}
              /\ warnings = 1
        /\ ~mcmc.given => ctl.nsample = DocumentedDefault

====
